---- MODULE Spec2Model ----
(***************************************************************************)
(* Vertex Baker (src/__init__.py): the bake-and-project operator           *)
(* OBJECT_OT_vc_bake_project.execute and the property-update callback      *)
(* update_vc_processor_sockets, as state machines over the host scene.     *)
(*                                                                         *)
(* The scene is a list of objects (an object's id is its index; a removed  *)
(* object keeps its index with alive = FALSE, so a Python reference held   *)
(* by the operator can dangle) and a list of mesh datablocks.  Reading a   *)
(* removed object raises ReferenceError, as the host does for a released   *)
(* ID.                                                                     *)
(***************************************************************************)
EXTENDS Integers, Sequences, FiniteSets, TLC

\* ---------------------------------------------------------------- constants
BAKE_SUFFIX == "_bake"
BAKE_COLLECTION == "VC_Bake"
DT_MOD_NAME == "DT_VC_Packed"
VC_PACKED == "VC_Packed"
VC_AO == "VC_AO"
VC_CURVATURE == "VC_Curvature"
VC_PREVIEW == "VC_Preview"
VC_GRADIENT == "VC_Gradient"
MAT_CURVATURE == "Mat_Curvature"
MAT_GRADIENT == "Mat_Gradient"
BBOX_NAME == "_boundingbox_bake"

\* ------------------------------------------------------------------- bounds
MaxInvocations == 2
MaxSel == 3
MaxEdits == 2

\* ---------------------------------------------------------------- variables
VARIABLES
    objects,          \* bpy.data.objects: sequence of object records
    meshes,           \* bpy.data.meshes: sequence of mesh records
    selected,         \* context.selected_objects (ids, in scene order)
    active,           \* context.view_layer.objects.active (0 = None)
    engine,           \* scene.render.engine
    collExists,       \* BAKE_COLLECTION in bpy.data.collections
    collHidden,       \* bake_coll.hide_viewport
    props,            \* scene.vertex_baker
    pc,               \* position of execute
    idx,              \* index of the running for loop
    originals,        \* execute: originals
    dup_map,          \* execute: dup_map
    original_engine,  \* execute: original_engine
    render_state,     \* execute: render_state
    selection_state,  \* execute: selection_state
    result,           \* how the last invocation ended
    logs,             \* log lines of the current invocation
    invocations,      \* number of invocations so far
    trace,            \* pipeline steps executed by the current invocation
    entry,            \* engine and hide_render flags at invocation
    cleanLog,         \* per bake mesh: what clean_bake_object_modifiers did
    prevDups,         \* duplicates made by earlier invocations
    failedAt,         \* the step of the current invocation that raised ("" = none)
    last_bake_duration, \* props.last_bake_duration: 0 = default, k = set by invocation k
    edits             \* number of property edits made through the panel

vars == <<objects, meshes, selected, active, engine, collExists, collHidden,
          props, pc, idx, originals, dup_map, original_engine, render_state,
          selection_state, result, logs, invocations, trace, entry, cleanLog,
          prevDups, failedAt, last_bake_duration, edits>>


\* ------------------------------------------------------------ host helpers
Range(s) == {s[i] : i \in 1..Len(s)}

Live(objs, o) == o \in 1..Len(objs) /\ objs[o].alive

NameExists(objs, nm) == \E i \in 1..Len(objs) : objs[i].alive /\ objs[i].name = nm

ByName(objs, nm) == CHOOSE i \in 1..Len(objs) : objs[i].alive /\ objs[i].name = nm

\* the host keeps object names unique: a taken name gets a numeric suffix
UniqueName(objs, nm) == IF NameExists(objs, nm) THEN nm \o ".001" ELSE nm

ModNames(mods) == {mods[i].name : i \in 1..Len(mods)}

ModGet(mods, nm) == IF nm \in ModNames(mods)
                    THEN CHOOSE i \in 1..Len(mods) : mods[i].name = nm
                    ELSE 0

UniqueModName(mods, nm) == IF nm \in ModNames(mods) THEN nm \o ".001" ELSE nm

NewMod(nm, ty) == [name |-> nm, type |-> ty, node_group |-> "", show_viewport |-> TRUE,
                   show_in_editmode |-> TRUE, object |-> 0, sockets |-> {}]

\* bpy.data.objects.remove(obj, do_unlink=True): the object is freed and every
\* pointer to it (here: a modifier's object) is cleared
UnlinkMods(mods, o) == [i \in 1..Len(mods) |->
                          IF mods[i].object = o THEN [mods[i] EXCEPT !.object = 0] ELSE mods[i]]

RemoveObject(objs, o) == [i \in 1..Len(objs) |->
                            IF i = o THEN [objs[i] EXCEPT !.alive = FALSE]
                            ELSE [objs[i] EXCEPT !.mods = UnlinkMods(objs[i].mods, o)]]

Deselect(sel, o) == SelectSeq(sel, LAMBDA j : j # o)

\* ------------------------------------------------------- selection utilities
store_selection == [active |-> active, selected |-> selected]

\* restore_selection: obj.name is read for every stored object, which raises for
\* a removed one
RestoreSelectionRaises(objs, state) == \E i \in 1..Len(state.selected) : ~Live(objs, state.selected[i])

RestoreSelectionActive(objs, state, cur) ==
    IF state.active # 0 /\ Live(objs, state.active) THEN state.active ELSE cur

\* select_objects(context, objects, active)
SelectActive(objs, act) == IF act # 0 THEN act ELSE IF Len(objs) > 0 THEN objs[1] ELSE 0

\* ------------------------------------------------------ mesh preparation
ensure_color_attribute(ms, d, name) ==
    [ms EXCEPT ![d].attrs = @ \cup {name}]

RECURSIVE EnsureAll(_, _, _)
EnsureAll(ms, d, names) ==
    IF names = <<>> THEN ms
    ELSE EnsureAll(ensure_color_attribute(ms, d, Head(names)), d, Tail(names))

set_active_color_attribute(ms, d, name) ==
    IF name \in ms[d].attrs
    THEN [ms EXCEPT ![d].active_color = name, ![d].active = name]
    ELSE ms

ClearIfIn(a, names) == IF a \in names THEN "" ELSE a

remove_unused_target_color_attributes(ms, d) ==
    [ms EXCEPT ![d].attrs = @ \ {VC_AO, VC_CURVATURE, VC_GRADIENT},
               ![d].active_color = ClearIfIn(@, {VC_AO, VC_CURVATURE, VC_GRADIENT}),
               ![d].active = ClearIfIn(@, {VC_AO, VC_CURVATURE, VC_GRADIENT})]

\* first loop of clean_bake_object_modifiers: which modifiers are marked
MarkedForRemoval(mod) ==
    IF mod.type = "DATA_TRANSFER" THEN TRUE
    ELSE IF mod.type = "NODES" /\ mod.node_group # ""
         THEN mod.node_group \in {"VC_Processor", "VC_Packer"}
         ELSE ~mod.show_viewport

\* second loop: the marked modifiers are removed by name
AfterRemoval(mods) == SelectSeq(mods, LAMBDA m : ~MarkedForRemoval(m))

\* third loop: modifier_apply on every remaining modifier; an applied modifier
\* leaves the stack, one whose apply raised RuntimeError stays (except: pass)
AfterApply(mods, failing) == SelectSeq(mods, LAMBDA m : m.name \in failing)

\* the modifiers on which the third loop calls modifier_apply
ApplyAttempted(mods, failing) == ModNames(mods)

\* variant: the RuntimeError of modifier_apply is not caught
CleanRaisesUncaught(failing) == failing # {}

\* whether an apply failure leaves clean_bake_object_modifiers as an exception
CleanRaises(failing) == FALSE

clean_bake_object_modifiers(mods, failing) == AfterApply(AfterRemoval(mods), failing)

\* ------------------------------------------------------------ initial scene
SceneNames == {"A", "B", "A_bake", BBOX_NAME}

InitSelections == {s \in UNION {[1..n -> SceneNames] : n \in 1..MaxSel} :
                     \A i, j \in 1..Len(s) : i # j => s[i] # s[j]}

UserMod(nm, ty, ng, shown) == [name |-> nm, type |-> ty, node_group |-> ng, show_viewport |-> shown,
                               show_in_editmode |-> TRUE, object |-> 0, sockets |-> {}]

Subsurf == UserMod("Subdivision", "SUBSURF", "", TRUE)
Mirror == UserMod("Mirror", "MIRROR", "", FALSE)
GeoNodes == UserMod("GeometryNodes", "NODES", "UserGroup", FALSE)
Transfer == UserMod("DataTransfer", "DATA_TRANSFER", "", TRUE)

\* the state of the mesh named A at invocation: its hide_render flag and its
\* modifier stack
InitVariants == {[hidden |-> FALSE, stack |-> <<>>],
                 [hidden |-> TRUE, stack |-> <<Mirror, Subsurf>>],
                 [hidden |-> FALSE, stack |-> <<GeoNodes, Transfer>>]}

Engines == {"BLENDER_EEVEE"}

InitProps == [ao_samples |-> 32, ao_blur |-> 2, ao_contrast |-> 1, curvature_blur |-> 2,
              curvature_contrast |-> 1, preview_channel |-> "1"]

EmptyMesh == [attrs |-> {}, active_color |-> "", active |-> "", materials |-> <<>>]

InitObject(nm, ty, hidden, stack, i) ==
    [alive |-> TRUE, name |-> nm, type |-> ty, data |-> IF ty = "MESH" THEN i ELSE 0,
     hide_render |-> hidden, mods |-> IF ty = "MESH" THEN stack ELSE <<>>, colls |-> {"Collection"}]

Init ==
    \E sel \in InitSelections, ty \in {"MESH", "EMPTY"}, v \in InitVariants, eng \in Engines :
        /\ objects = [i \in 1..Len(sel) |->
                        InitObject(sel[i], IF sel[i] = "A_bake" THEN ty ELSE "MESH",
                                   IF sel[i] = "A" THEN v.hidden ELSE FALSE,
                                   IF sel[i] = "A" THEN v.stack ELSE <<>>, i)]
        /\ meshes = [i \in 1..Len(sel) |-> EmptyMesh]
        /\ selected = [i \in 1..Len(sel) |-> i]
        /\ active = 1
        /\ engine = eng
        /\ collExists = FALSE
        /\ collHidden = FALSE
        /\ props = InitProps
        /\ pc = "idle"
        /\ idx = 0
        /\ originals = <<>>
        /\ dup_map = <<>>
        /\ original_engine = ""
        /\ render_state = <<>>
        /\ selection_state = [active |-> 0, selected |-> <<>>]
        /\ result = "none"
        /\ logs = <<>>
        /\ invocations = 0
        /\ trace = <<>>
        /\ entry = [engine |-> eng, hide |-> <<>>]
        /\ cleanLog = <<>>
        /\ prevDups = {}
        /\ failedAt = ""
        /\ last_bake_duration = 0
        /\ edits = 0

\* -------------------------------------------------------------- control flow
\* variant: the packing loop placed before the gradient bake
StepAfterPackEarly(step) ==
    CASE step = "load" -> "dup"
      [] step = "dup" -> "prep"
      [] step = "prep" -> "configure"
      [] step = "configure" -> "curv_setup"
      [] step = "curv_setup" -> "curv_call"
      [] step = "curv_call" -> "disable_render"
      [] step = "disable_render" -> "ao_setup"
      [] step = "ao_setup" -> "ao_call"
      [] step = "ao_call" -> "bbox"
      [] step = "bbox" -> "pack"
      [] step = "pack" -> "grad_mat"
      [] step = "grad_mat" -> "grad_setup"
      [] step = "grad_setup" -> "grad_call"
      [] step = "grad_call" -> "attach"
      [] step = "attach" -> "set_preview"
      [] step = "set_preview" -> "finally"
      [] step = "finally" -> "restore_selection"

\* the statement order of execute: the step that follows each step
StepAfter(step) ==
    CASE step = "load" -> "dup"
      [] step = "dup" -> "prep"
      [] step = "prep" -> "configure"
      [] step = "configure" -> "curv_setup"
      [] step = "curv_setup" -> "curv_call"
      [] step = "curv_call" -> "disable_render"
      [] step = "disable_render" -> "ao_setup"
      [] step = "ao_setup" -> "ao_call"
      [] step = "ao_call" -> "bbox"
      [] step = "bbox" -> "grad_mat"
      [] step = "grad_mat" -> "grad_setup"
      [] step = "grad_setup" -> "grad_call"
      [] step = "grad_call" -> "pack"
      [] step = "pack" -> "attach"
      [] step = "attach" -> "set_preview"
      [] step = "set_preview" -> "finally"
      [] step = "finally" -> "restore_selection"

\* bake_objs = list(dup_map.values()): the duplicates in insertion order
bake_objs == [i \in 1..Len(originals) |-> dup_map[originals[i]]]

Event(step, obj) == [step |-> step, obj |-> obj]

\* variant: the except clause logs and swallows the exception
ReraisesSwallow == FALSE

\* except Exception: log(...); raise
Reraises == TRUE

ExceptClause(step) ==
    /\ logs' = Append(logs, "failed")
    /\ failedAt' = step
    /\ IF Reraises
       THEN pc' = "idle" /\ result' = "raised"
       ELSE pc' = "restore_selection" /\ result' = result

\* finally: context.scene.render.engine = original_engine
FinallyEngine(cur, orig) == orig

\* an exception inside the inner try: the finally block, then the except clause
RaiseInner(step) ==
    /\ collHidden' = TRUE
    /\ engine' = FinallyEngine(engine, original_engine)
    /\ ExceptClause(step)

Frame == UNCHANGED <<props, invocations, selection_state, entry, prevDups, originals, edits>>

\* ------------------------------------------------------------------ execute
Invoke ==
    /\ pc = "idle"
    /\ invocations < MaxInvocations
    /\ invocations' = invocations + 1
    /\ selection_state' = store_selection
    /\ LET orig == SelectSeq(selected, LAMBDA o : objects[o].type = "MESH") IN
        /\ originals' = orig
        /\ entry' = [engine |-> engine,
                     hide |-> [i \in 1..Len(orig) |-> objects[orig[i]].hide_render]]
        /\ IF orig = <<>>
           THEN pc' = "idle" /\ result' = "CANCELLED" /\ logs' = <<>>
           ELSE pc' = "load" /\ result' = "running" /\ logs' = <<"started">>
    /\ prevDups' = prevDups \cup {dup_map[o] : o \in DOMAIN dup_map}
    /\ dup_map' = <<>>
    /\ render_state' = <<>>
    /\ trace' = <<>>
    /\ cleanLog' = <<>>
    /\ failedAt' = ""
    /\ idx' = 0
    /\ UNCHANGED <<objects, meshes, selected, active, engine, collExists, collHidden, props,
                   original_engine, last_bake_duration, edits>>

\* load_from_blend, the material lookups, ensure_collection, original_engine
Load ==
    /\ pc = "load"
    /\ \E ok \in BOOLEAN :
        IF ok
        THEN /\ collExists' = TRUE
             /\ collHidden' = FALSE
             /\ original_engine' = engine
             /\ pc' = StepAfter("load")
             /\ idx' = 1
             /\ UNCHANGED <<result, logs, failedAt>>
        ELSE /\ ExceptClause("load")
             /\ UNCHANGED <<collExists, collHidden, original_engine, idx>>
    /\ trace' = Append(trace, Event("load", 0))
    /\ UNCHANGED <<objects, meshes, selected, active, engine, dup_map, render_state, cleanLog,
                   last_bake_duration>>
    /\ Frame

\* variant: the stale object is left in place
ObjectsAfterRemoveKeep(objs, new_name) == objs

\* duplicate_object: an existing object named new_name is removed first
ObjectsAfterRemove(objs, new_name) ==
    IF NameExists(objs, new_name) THEN RemoveObject(objs, ByName(objs, new_name)) ELSE objs

SelectionAfterRemove(objs, sel, new_name) ==
    IF NameExists(objs, new_name) THEN Deselect(sel, ByName(objs, new_name)) ELSE sel

\* dup.data = obj.data.copy(): the index of the new mesh datablock
DupData(ms, d) == Len(ms) + 1

duplicate_object(objs, o, suffix, ms) ==
    LET new_name == objs[o].name \o suffix
        objs1 == ObjectsAfterRemove(objs, new_name)
    IN  [objs1[o] EXCEPT !.name = UniqueName(objs1, new_name),
                         !.data = DupData(ms, objs[o].data),
                         !.colls = {BAKE_COLLECTION}]

\* one iteration of the loop of lines 538-541
Dup ==
    /\ pc = "dup"
    /\ LET o == originals[idx] IN
        IF ~Live(objects, o)
        THEN /\ RaiseInner("dup")
             /\ trace' = Append(trace, Event("dup", o))
             /\ UNCHANGED <<objects, meshes, selected, active, dup_map, idx>>
        ELSE LET ms1 == EnsureAll(meshes, objects[o].data, <<VC_PACKED, VC_PREVIEW>>)
                 new_name == objects[o].name \o BAKE_SUFFIX
                 objs1 == ObjectsAfterRemove(objects, new_name)
                 sel1 == SelectionAfterRemove(objects, selected, new_name)
                 dup == duplicate_object(objects, o, BAKE_SUFFIX, ms1)
             IN  /\ objects' = Append(objs1, dup)
                 /\ meshes' = Append(ms1, ms1[objects[o].data])
                 /\ selected' = sel1
                 /\ active' = IF Live(objs1, active) THEN active ELSE 0
                 /\ dup_map' = (o :> (Len(objs1) + 1)) @@ dup_map
                 /\ trace' = Append(trace, Event("dup", o))
                 /\ IF idx < Len(originals)
                    THEN idx' = idx + 1 /\ pc' = pc
                    ELSE idx' = 1 /\ pc' = StepAfter("dup")
                 /\ UNCHANGED <<engine, collHidden, result, logs, failedAt>>
    /\ UNCHANGED <<collExists, original_engine, render_state, cleanLog, last_bake_duration>>
    /\ Frame

\* one iteration of the loop of lines 550-559
Prep ==
    /\ pc = "prep"
    /\ LET d == bake_objs[idx]
           ms1 == [meshes EXCEPT ![objects[d].data].materials = <<MAT_CURVATURE>>]
           ms2 == EnsureAll(ms1, objects[d].data,
                            <<VC_PACKED, VC_AO, VC_CURVATURE, VC_GRADIENT, VC_PREVIEW>>)
           kept == AfterRemoval(objects[d].mods)
       IN  \E failing \in SUBSET ModNames(kept) :
            /\ meshes' = ms2
            /\ selected' = <<d>>
            /\ active' = d
            /\ cleanLog' = (d :> [before |-> objects[d].mods,
                                  attempted |-> ApplyAttempted(kept, failing),
                                  failed |-> failing,
                                  after |-> clean_bake_object_modifiers(objects[d].mods, failing)])
                            @@ cleanLog
            /\ trace' = Append(trace, Event("clean", d))
            /\ objects' = [objects EXCEPT ![d].mods = clean_bake_object_modifiers(@, failing)]
            /\ IF CleanRaises(failing)
               THEN /\ RaiseInner("clean")
                    /\ UNCHANGED idx
               ELSE /\ IF idx < Len(originals)
                       THEN idx' = idx + 1 /\ pc' = pc
                       ELSE idx' = 1 /\ pc' = StepAfter("prep")
                    /\ UNCHANGED <<engine, collHidden, result, logs, failedAt>>
    /\ UNCHANGED <<collExists, dup_map, original_engine, render_state, last_bake_duration>>
    /\ Frame

\* configure_cycles_for_baking
Configure ==
    /\ pc = "configure"
    /\ engine' = "CYCLES"
    /\ pc' = StepAfter("configure")
    /\ UNCHANGED <<objects, meshes, selected, active, collExists, collHidden, idx, dup_map,
                   original_engine, render_state, result, logs, trace, cleanLog, failedAt,
                   last_bake_duration>>
    /\ Frame

\* bake_to_color up to the bake call: the target attribute of every bake mesh
RECURSIVE SetActiveAll(_, _, _, _)
SetActiveAll(ms, objs, ids, name) ==
    IF ids = <<>> THEN ms
    ELSE SetActiveAll(set_active_color_attribute(ms, objs[Head(ids)].data, name),
                      objs, Tail(ids), name)

BakeSetup(step, color_name) ==
    /\ pc = step
    /\ meshes' = SetActiveAll(meshes, objects, bake_objs, color_name)
    /\ selected' = bake_objs
    /\ active' = SelectActive(bake_objs, 0)
    /\ pc' = StepAfter(step)
    /\ UNCHANGED <<objects, engine, collExists, collHidden, idx, dup_map, original_engine,
                   render_state, result, logs, trace, cleanLog, failedAt, last_bake_duration>>
    /\ Frame

\* variant: the saved flags are not written back
RestoreRenderStateSkip(objs, state) == objs

\* restore_render_state
RestoreRenderState(objs, state) ==
    [i \in 1..Len(objs) |->
        IF i \in DOMAIN state THEN [objs[i] EXCEPT !.hide_render = state[i]] ELSE objs[i]]

\* bpy.ops.object.bake(type=bake_type): the render either completes or raises
BakeCall(step, bake_type, restoring) ==
    /\ pc = step
    /\ objects' = IF restoring THEN RestoreRenderState(objects, render_state) ELSE objects
    /\ \E ok \in BOOLEAN :
        IF ok
        THEN /\ pc' = StepAfter(step)
             /\ UNCHANGED <<engine, collHidden, result, logs, failedAt>>
        ELSE RaiseInner(step)
    /\ trace' = Append(trace, Event(step, 0))
    /\ UNCHANGED <<meshes, selected, active, collExists, idx, dup_map, original_engine,
                   render_state, cleanLog, last_bake_duration>>
    /\ Frame

CurvatureSetup == BakeSetup("curv_setup", VC_CURVATURE)
CurvatureBake == BakeCall("curv_call", "DIFFUSE", FALSE)
AOSetup == BakeSetup("ao_setup", VC_AO)
AOBake == BakeCall("ao_call", "AO", TRUE)
GradientSetup == BakeSetup("grad_setup", VC_GRADIENT)
GradientBake == BakeCall("grad_call", "DIFFUSE", FALSE)

\* disable_render_temporarily: the loop stops at the first removed object
FirstDead(objs, ids) ==
    IF \E i \in 1..Len(ids) : ~Live(objs, ids[i])
    THEN CHOOSE i \in 1..Len(ids) : ~Live(objs, ids[i]) /\ \A j \in 1..(i - 1) : Live(objs, ids[j])
    ELSE Len(ids) + 1

disable_render_temporarily(objs, ids) ==
    LET done == {ids[j] : j \in 1..(FirstDead(objs, ids) - 1)} IN
    [i \in 1..Len(objs) |-> IF i \in done THEN [objs[i] EXCEPT !.hide_render = TRUE] ELSE objs[i]]

SavedRenderState(objs, ids) ==
    LET done == {ids[j] : j \in 1..(FirstDead(objs, ids) - 1)} IN
    [o \in done |-> objs[o].hide_render]

DisableRender ==
    /\ pc = "disable_render"
    /\ objects' = disable_render_temporarily(objects, originals)
    /\ IF FirstDead(objects, originals) <= Len(originals)
       THEN /\ RaiseInner("disable_render")
            /\ UNCHANGED render_state
       ELSE /\ render_state' = SavedRenderState(objects, originals)
            /\ pc' = StepAfter("disable_render")
            /\ UNCHANGED <<engine, collHidden, result, logs, failedAt>>
    /\ UNCHANGED <<meshes, selected, active, collExists, idx, dup_map, original_engine, trace,
                   cleanLog, last_bake_duration>>
    /\ Frame

\* create_combined_bounding_box: an object named _boundingbox_bake is removed
\* and a new one is created in the bake collection
BoundingBox ==
    /\ pc = "bbox"
    /\ LET objs1 == ObjectsAfterRemove(objects, BBOX_NAME)
           sel1 == SelectionAfterRemove(objects, selected, BBOX_NAME)
           bbox == [alive |-> TRUE, name |-> UniqueName(objs1, BBOX_NAME), type |-> "MESH",
                    data |-> Len(meshes) + 1, hide_render |-> TRUE, mods |-> <<>>,
                    colls |-> {BAKE_COLLECTION}]
       IN  /\ objects' = Append(objs1, bbox)
           /\ meshes' = Append(meshes, EmptyMesh)
           /\ selected' = sel1
           /\ active' = IF Live(objs1, active) THEN active ELSE 0
    /\ pc' = StepAfter("bbox")
    /\ UNCHANGED <<engine, collExists, collHidden, idx, dup_map, original_engine, render_state,
                   result, logs, trace, cleanLog, failedAt, last_bake_duration>>
    /\ Frame

\* the loop of lines 601-603: the gradient material on every bake mesh
RECURSIVE SetMaterialAll(_, _, _, _)
SetMaterialAll(ms, objs, ids, mat) ==
    IF ids = <<>> \/ ~Live(objs, Head(ids)) THEN ms
    ELSE SetMaterialAll([ms EXCEPT ![objs[Head(ids)].data].materials = <<mat>>],
                        objs, Tail(ids), mat)

GradientMaterial ==
    /\ pc = "grad_mat"
    /\ meshes' = SetMaterialAll(meshes, objects, bake_objs, MAT_GRADIENT)
    /\ IF FirstDead(objects, bake_objs) <= Len(bake_objs)
       THEN RaiseInner("grad_mat")
       ELSE /\ pc' = StepAfter("grad_mat")
            /\ UNCHANGED <<engine, collHidden, result, logs, failedAt>>
    /\ UNCHANGED <<objects, selected, active, collExists, idx, dup_map, original_engine,
                   render_state, trace, cleanLog, last_bake_duration>>
    /\ Frame

\* one iteration of the loop of lines 615-620
PackerMod(mods) == [NewMod(UniqueModName(mods, "VC_Packer"), "NODES") EXCEPT !.node_group = "VC_Packer"]

\* whether a failing modifier_apply of the packer leaves execute as an exception
PackRaises(ok) == ~ok

Pack ==
    /\ pc = "pack"
    /\ LET d == bake_objs[idx] IN
       \E ok \in BOOLEAN :
        /\ selected' = <<d>>
        /\ active' = d
        /\ trace' = Append(trace, Event("pack", d))
        /\ IF PackRaises(ok)
           THEN /\ objects' = [objects EXCEPT ![d].mods = Append(@, PackerMod(@))]
                /\ RaiseInner("pack")
                /\ UNCHANGED <<meshes, idx>>
           ELSE /\ objects' = IF ok THEN objects
                              ELSE [objects EXCEPT ![d].mods = Append(@, PackerMod(@))]
                /\ meshes' = set_active_color_attribute(meshes, objects[d].data, VC_AO)
                /\ IF idx < Len(originals)
                   THEN idx' = idx + 1 /\ pc' = pc
                   ELSE idx' = 1 /\ pc' = StepAfter("pack")
                /\ UNCHANGED <<engine, collHidden, result, logs, failedAt>>
    /\ UNCHANGED <<collExists, dup_map, original_engine, render_state, cleanLog,
                   last_bake_duration>>
    /\ Frame

\* variant: the source object is set only when the modifier is created
ensure_datatransfer_stale(mods, src) ==
    IF DT_MOD_NAME \in ModNames(mods) THEN mods
    ELSE Append(mods, [NewMod(DT_MOD_NAME, "DATA_TRANSFER") EXCEPT !.object = src,
                                                                   !.show_in_editmode = FALSE])

\* ensure_datatransfer(obj, src)
ensure_datatransfer(mods, src) ==
    LET mods1 == IF DT_MOD_NAME \in ModNames(mods) THEN mods
                 ELSE Append(mods, NewMod(DT_MOD_NAME, "DATA_TRANSFER"))
        k == ModGet(mods1, DT_MOD_NAME)
    IN  [mods1 EXCEPT ![k].object = src, ![k].show_in_editmode = FALSE]

\* lines 625-628: the VC_Processor modifier is added once
EnsureProcessor(mods) ==
    IF "VC_Processor" \in ModNames(mods) THEN mods
    ELSE Append(mods, [NewMod("VC_Processor", "NODES") EXCEPT !.node_group = "VC_Processor",
                                                              !.show_in_editmode = FALSE])

\* one iteration of the loop of lines 622-628
Attach ==
    /\ pc = "attach"
    /\ LET o == originals[idx]
           d == dup_map[o]
       IN  IF ~Live(objects, o)
           THEN /\ RaiseInner("attach")
                /\ trace' = Append(trace, Event("attach", o))
                /\ UNCHANGED <<objects, meshes, idx>>
           ELSE /\ objects' = [objects EXCEPT ![o].mods = EnsureProcessor(ensure_datatransfer(@, d))]
                /\ meshes' = remove_unused_target_color_attributes(meshes, objects[o].data)
                /\ trace' = Append(trace, Event("attach", o))
                /\ IF idx < Len(originals)
                   THEN idx' = idx + 1 /\ pc' = pc
                   ELSE idx' = 1 /\ pc' = StepAfter("attach")
                /\ UNCHANGED <<engine, collHidden, result, logs, failedAt>>
    /\ UNCHANGED <<selected, active, collExists, dup_map, original_engine, render_state,
                   cleanLog, last_bake_duration>>
    /\ Frame

\* lines 630-633
SetPreview ==
    /\ pc = "set_preview"
    /\ meshes' = SetActiveAll(meshes, objects, originals, VC_PREVIEW)
    /\ pc' = StepAfter("set_preview")
    /\ UNCHANGED <<objects, selected, active, engine, collExists, collHidden, idx, dup_map,
                   original_engine, render_state, result, logs, trace, cleanLog, failedAt,
                   last_bake_duration>>
    /\ Frame

\* the finally block and the else clause on the path without exception
Finally ==
    /\ pc = "finally"
    /\ collHidden' = TRUE
    /\ engine' = FinallyEngine(engine, original_engine)
    /\ logs' = Append(logs, "finished")
    /\ pc' = StepAfter("finally")
    /\ UNCHANGED <<objects, meshes, selected, active, collExists, idx, dup_map, original_engine,
                   render_state, result, trace, cleanLog, failedAt, last_bake_duration>>
    /\ Frame

\* restore_selection and the duration report (lines 648-665)
RestoreSelection ==
    /\ pc = "restore_selection"
    /\ pc' = "idle"
    /\ LET state == selection_state
           n == FirstDead(objects, state.selected)
       IN  IF RestoreSelectionRaises(objects, state)
           THEN /\ selected' = SubSeq(state.selected, 1, n - 1)
                /\ result' = "raised"
                /\ UNCHANGED <<active, logs, last_bake_duration>>
           ELSE /\ selected' = state.selected
                /\ active' = RestoreSelectionActive(objects, state, active)
                /\ last_bake_duration' = invocations
                /\ logs' = Append(logs, "duration")
                /\ result' = "FINISHED"
    /\ UNCHANGED <<objects, meshes, engine, collExists, collHidden, idx, dup_map,
                   original_engine, render_state, trace, cleanLog, failedAt>>
    /\ Frame

Next ==
    \/ Invoke
    \/ Load
    \/ Dup
    \/ Prep
    \/ Configure
    \/ CurvatureSetup
    \/ CurvatureBake
    \/ DisableRender
    \/ AOSetup
    \/ AOBake
    \/ BoundingBox
    \/ GradientMaterial
    \/ GradientSetup
    \/ GradientBake
    \/ Pack
    \/ Attach
    \/ SetPreview
    \/ Finally
    \/ RestoreSelection

Spec == Init /\ [][Next]_vars

TypeOK ==
    /\ pc \in {"idle", "load", "dup", "prep", "configure", "curv_setup", "curv_call",
               "disable_render", "ao_setup", "ao_call", "bbox", "grad_mat", "grad_setup",
               "grad_call", "pack", "attach", "set_preview", "finally", "restore_selection"}
    /\ result \in {"none", "running", "CANCELLED", "FINISHED", "raised"}
    /\ \A i \in 1..Len(selected) : Live(objects, selected[i])

\* ------------------------------------------------ property-update callback
\* int(props.preview_channel): the enum identifier parsed as a decimal number
IntOfEnum(ch) == CASE ch = "0" -> 0
                   [] ch = "1" -> 1
                   [] ch = "2" -> 2
                   [] ch = "3" -> 3

\* variant: the enum number is pushed without the offset
PreviewSocketNoOffset(ch) == IntOfEnum(ch)

\* mod["Socket_2"] = int(props.preview_channel)-1
PreviewSocket(ch) == IntOfEnum(ch) - 1

\* mod[key] = value on the modifier's custom properties
SetSocket(sockets, key, value) == {q \in sockets : q[1] # key} \cup {<<key, value>>}

PushSockets(sockets, p) ==
    SetSocket(SetSocket(SetSocket(SetSocket(SetSocket(sockets,
        "Socket_2", PreviewSocket(p.preview_channel)),
        "Socket_7", p.ao_blur),
        "Socket_6", p.ao_contrast),
        "Socket_3", p.curvature_blur),
        "Socket_4", p.curvature_contrast)

update_vc_processor_sockets(objs, sel, p) ==
    [i \in 1..Len(objs) |->
        IF i \in Range(sel) /\ objs[i].type = "MESH" /\ "VC_Processor" \in ModNames(objs[i].mods)
        THEN [objs[i] EXCEPT !.mods[ModGet(objs[i].mods, "VC_Processor")].sockets =
                                  PushSockets(@, p)]
        ELSE objs[i]]

ProcessorMod == [NewMod("VC_Processor", "NODES") EXCEPT !.node_group = "VC_Processor",
                                                        !.show_in_editmode = FALSE]

UIObject(nm, ty, stack, i) ==
    [alive |-> TRUE, name |-> nm, type |-> ty, data |-> IF ty = "MESH" THEN i ELSE 0,
     hide_render |-> FALSE, mods |-> stack, colls |-> {"Collection"}]

\* a scene after a bake: two meshes that carry VC_Processor, and a third object
\* that is a plain mesh or an empty
InitUI ==
    \E ty \in {"MESH", "EMPTY"}, sel \in SUBSET {1, 2, 3} :
        /\ objects = <<UIObject("A", "MESH", <<ProcessorMod>>, 1),
                       UIObject("B", "MESH", <<Subsurf, ProcessorMod>>, 2),
                       UIObject("C", ty, <<>>, 3)>>
        /\ meshes = <<EmptyMesh, EmptyMesh, EmptyMesh>>
        /\ selected = SelectSeq(<<1, 2, 3>>, LAMBDA o : o \in sel)
        /\ active = 0
        /\ engine = "BLENDER_EEVEE"
        /\ collExists = FALSE
        /\ collHidden = FALSE
        /\ props = InitProps
        /\ pc = "idle"
        /\ idx = 0
        /\ originals = <<>>
        /\ dup_map = <<>>
        /\ original_engine = ""
        /\ render_state = <<>>
        /\ selection_state = [active |-> 0, selected |-> <<>>]
        /\ result = "none"
        /\ logs = <<>>
        /\ invocations = 0
        /\ trace = <<>>
        /\ entry = [engine |-> "BLENDER_EEVEE", hide |-> <<>>]
        /\ cleanLog = <<>>
        /\ prevDups = {}
        /\ failedAt = ""
        /\ last_bake_duration = 0
        /\ edits = 0

uiFrame == UNCHANGED <<meshes, selected, active, engine, collExists, collHidden, pc, idx,
                       originals, dup_map, original_engine, render_state, selection_state,
                       result, logs, invocations, trace, entry, cleanLog, prevDups, failedAt,
                       last_bake_duration>>

\* a property is set from the panel: the value is stored, then the update
\* callback of the property runs
Edit(p) ==
    /\ edits < MaxEdits
    /\ edits' = edits + 1
    /\ props' = p
    /\ objects' = update_vc_processor_sockets(objects, selected, p)
    /\ uiFrame

SetAoSamples == \E v \in {1, 32} : Edit([props EXCEPT !.ao_samples = v])
SetAoBlur == \E v \in {0, 2} : Edit([props EXCEPT !.ao_blur = v])
SetAoContrast == \E v \in {1, 5} : Edit([props EXCEPT !.ao_contrast = v])
SetCurvatureBlur == \E v \in {0, 2} : Edit([props EXCEPT !.curvature_blur = v])
SetCurvatureContrast == \E v \in {1, 5} : Edit([props EXCEPT !.curvature_contrast = v])
SetPreviewChannel == \E v \in {"0", "1", "2", "3"} : Edit([props EXCEPT !.preview_channel = v])

\* the user changes the selection between edits
ToggleSelect ==
    /\ \E o \in 1..Len(objects) :
        selected' = IF o \in Range(selected) THEN Deselect(selected, o)
                    ELSE SelectSeq(<<1, 2, 3>>, LAMBDA j : j = o \/ j \in Range(selected))
    /\ UNCHANGED <<objects, meshes, active, engine, collExists, collHidden, props, pc, idx,
                   originals, dup_map, original_engine, render_state, selection_state, result,
                   logs, invocations, trace, entry, cleanLog, prevDups, failedAt,
                   last_bake_duration, edits>>

NextUI ==
    \/ SetAoSamples
    \/ SetAoBlur
    \/ SetAoContrast
    \/ SetCurvatureBlur
    \/ SetCurvatureContrast
    \/ SetPreviewChannel
    \/ ToggleSelect

SpecUI == InitUI /\ [][NextUI]_vars

\* ------------------------------------------------------------- properties
NameCount(mods, nm) == Cardinality({i \in 1..Len(mods) : mods[i].name = nm})

StepCount(step) == Cardinality({k \in 1..Len(trace) : trace[k].step = step})

Ended == pc = "idle" /\ result \in {"FINISHED", "raised", "CANCELLED"}

\* C1: when an invocation has ended, in whatever way, the render engine and the
\* hide_render flag of every selected original mesh have the values they had
\* when the operator was invoked.
C1_RenderStateRestored ==
    Ended => /\ engine = entry.engine
             /\ \A i \in 1..Len(originals) : objects[originals[i]].hide_render = entry.hide[i]

\* C2: an exception of a pipeline step is logged as "Bake failed" and ends the
\* invocation as an exception: no FINISHED, no update of last_bake_duration,
\* and no step (in particular no bake call) is executed twice.
C2_FailurePropagates ==
    /\ failedAt # "" => /\ pc = "idle"
                        /\ result = "raised"
                        /\ logs # <<>> /\ logs[Len(logs)] = "failed"
                        /\ last_bake_duration # invocations
    /\ (pc = "idle" /\ result = "FINISHED") => failedAt = "" /\ last_bake_duration = invocations
    /\ \A s \in {"curv_call", "ao_call", "grad_call"} : StepCount(s) <= 1
    /\ Cardinality(Range(trace)) = Len(trace)

\* a bake call failed in an invocation that followed a successful one
C2_Witness ==
    /\ failedAt = "ao_call"
    /\ result = "raised"
    /\ invocations = 2
    /\ last_bake_duration = 1

\* the k-th pipeline step of an invocation on originals
Expected(k) ==
    LET n == Len(originals) IN
    IF k = 1 THEN Event("load", 0)
    ELSE IF k <= 1 + n THEN Event("dup", originals[k - 1])
    ELSE IF k <= 1 + 2 * n THEN Event("clean", dup_map[originals[k - 1 - n]])
    ELSE IF k = 2 + 2 * n THEN Event("curv_call", 0)
    ELSE IF k = 3 + 2 * n THEN Event("ao_call", 0)
    ELSE IF k = 4 + 2 * n THEN Event("grad_call", 0)
    ELSE IF k <= 4 + 3 * n THEN Event("pack", dup_map[originals[k - 4 - 2 * n]])
    ELSE Event("attach", originals[k - 4 - 3 * n])

\* C3: the steps of an invocation are a prefix of: load, duplicate every
\* original, clean every bake mesh, curvature bake, AO bake, gradient bake,
\* pack every bake mesh, attach to every original; after a failed step the
\* operator is no longer running.
C3_FixedOrder ==
    /\ Len(trace) <= 4 + 4 * Len(originals)
    /\ \A k \in 1..Len(trace) : trace[k] = Expected(k)
    /\ failedAt # "" => pc = "idle"

\* a complete run over at least two originals
C3_Witness ==
    /\ pc = "idle"
    /\ result = "FINISHED"
    /\ Len(originals) >= 2
    /\ Len(trace) = 4 + 4 * Len(originals)

PackerLeft(d) == \E i \in 1..Len(objects[d].mods) :
                    /\ objects[d].mods[i].type = "NODES"
                    /\ objects[d].mods[i].node_group = "VC_Packer"

DupPhaseDone == pc \in {"prep", "configure", "curv_setup", "curv_call", "disable_render",
                        "ao_setup", "ao_call", "bbox"}

\* C5: after the duplication step dup_map has one entry per original; the
\* duplicate is another, live object named <original name>_bake with a mesh
\* datablock of its own, linked into VC_Bake; the map is injective; and no two
\* live objects ever share a name.
C5_DupMap ==
    /\ DupPhaseDone =>
        /\ DOMAIN dup_map = Range(originals)
        /\ \A o \in DOMAIN dup_map :
            LET d == dup_map[o] IN
            /\ d # o
            /\ Live(objects, d)
            /\ objects[d].name = objects[o].name \o BAKE_SUFFIX
            /\ \A j \in 1..Len(objects) : j # d => objects[j].data # objects[d].data
            /\ objects[d].colls = {BAKE_COLLECTION}
            /\ \A o2 \in DOMAIN dup_map : o2 # o => dup_map[o2] # d
    /\ LET alive == {i \in 1..Len(objects) : objects[i].alive} IN
          Cardinality({objects[i].name : i \in alive}) = Cardinality(alive)

\* the duplication step of a second invocation replaced a duplicate of the first
C5_Witness ==
    /\ DupPhaseDone
    /\ invocations = 2
    /\ \E o \in DOMAIN dup_map : \E p \in prevDups :
          ~Live(objects, p) /\ objects[p].name = objects[dup_map[o]].name

VCRelated(mod) == \/ mod.type = "DATA_TRANSFER"
                  \/ mod.type = "NODES" /\ mod.node_group \in {"VC_Processor", "VC_Packer"}

\* C6: after a successful invocation every original carries exactly one
\* DT_VC_Packed modifier, whose source is the live duplicate made by this
\* invocation, and exactly one VC_Processor modifier; no bake mesh carries a
\* data-transfer, VC_Processor or VC_Packer modifier.
C6_ProjectionIdempotent ==
    (pc = "idle" /\ result = "FINISHED") =>
        \A i \in 1..Len(originals) :
            LET o == originals[i]
                d == dup_map[o]
                mods == objects[o].mods
            IN  /\ NameCount(mods, DT_MOD_NAME) = 1
                /\ mods[ModGet(mods, DT_MOD_NAME)].object = d
                /\ Live(objects, d)
                /\ d \notin prevDups
                /\ NameCount(mods, "VC_Processor") = 1
                /\ \A j \in 1..Len(objects[d].mods) : ~VCRelated(objects[d].mods[j])

\* a second successful invocation on an original that already carried the
\* projection of the first, whose duplicate has been removed
C6_Witness ==
    /\ pc = "idle"
    /\ result = "FINISHED"
    /\ invocations = 2
    /\ \E i \in 1..Len(originals) : \E p \in prevDups :
          /\ ~Live(objects, p)
          /\ objects[p].name = objects[dup_map[originals[i]]].name

AtBakeCall == pc \in {"curv_call", "ao_call", "grad_call"}

BakeTarget == CASE pc = "curv_call" -> VC_CURVATURE
                [] pc = "ao_call" -> VC_AO
                [] pc = "grad_call" -> VC_GRADIENT

BakeMaterial == IF pc = "grad_call" THEN MAT_GRADIENT ELSE MAT_CURVATURE

BakeTargetsSet ==
    \A i \in 1..Len(originals) :
        LET d == dup_map[originals[i]] IN
        /\ Live(objects, d)
        /\ d \in Range(selected)
        /\ BakeTarget \in meshes[objects[d].data].attrs
        /\ meshes[objects[d].data].active_color = BakeTarget
        /\ meshes[objects[d].data].active = BakeTarget
        /\ meshes[objects[d].data].materials = <<BakeMaterial>>

AllOriginalsHidden == \A i \in 1..Len(originals) : objects[originals[i]].hide_render

\* C7 as stated: at every bake call the bake meshes are selected with the
\* pass's attribute as target, and the originals are all hidden from render
\* during the AO call and only then.
C7_HiddenOnlyDuringAO ==
    AtBakeCall => /\ BakeTargetsSet
                  /\ (pc = "ao_call") <=> AllOriginalsHidden

\* C7 amended: at every bake call the bake meshes are selected with the pass's
\* attribute as target; at the AO call every original is hidden from render, at
\* the other two calls every original has the hide_render value it was invoked
\* with.
C7_BakeTargets ==
    AtBakeCall => /\ BakeTargetsSet
                  /\ pc = "ao_call" => AllOriginalsHidden
                  /\ pc # "ao_call" =>
                        \A i \in 1..Len(originals) :
                            objects[originals[i]].hide_render = entry.hide[i]

\* the gradient bake call on originals that are visible to the renderer
C7_Witness ==
    /\ pc = "grad_call"
    /\ \E i \in 1..Len(originals) : ~entry.hide[i]
    /\ Len(originals) >= 2

\* C8: after clean_bake_object_modifiers a bake mesh has no data-transfer
\* modifier, no VC_Processor or VC_Packer nodes modifier, no disabled modifier,
\* and an empty stack.
C8_CleanStack ==
    \A d \in DOMAIN cleanLog :
        LET a == cleanLog[d].after IN
        /\ \A i \in 1..Len(a) : ~VCRelated(a[i]) /\ a[i].show_viewport
        /\ a = <<>>

\* C10: every original of the invocation is still a live object.
C10_SelectedSurvive ==
    \A i \in 1..Len(originals) : Live(objects, originals[i])

ExpectedPreview(ch) == CASE ch = "0" -> -1
                         [] ch = "1" -> 0
                         [] ch = "2" -> 1
                         [] ch = "3" -> 2

Targeted(i) == /\ i \in Range(selected)
               /\ objects[i].type = "MESH"
               /\ "VC_Processor" \in ModNames(objects[i].mods)

ProcessorSockets(obj) == obj.mods[ModGet(obj.mods, "VC_Processor")].sockets

====
